---- MODULE Spec2Model ----
(***************************************************************************)
(* EB1-A information gatherer (src/app.py, src/agents/visa_agent.py,       *)
(* src/utils/pdf_utils.py, src/utils/linkedin_utils.py).                   *)
(*                                                                         *)
(* A Python string is modelled as a sequence of tokens.  A token is a TLA+ *)
(* string standing for a maximal run of characters of one lexical class:   *)
(* one of the four tags, a code-fence marker, a run of whitespace, a JSON  *)
(* punctuation mark, a JSON literal, a quoted JSON string, or a word of    *)
(* plain text.  str.strip, str.startswith, str.endswith, slicing, the two  *)
(* regular-expression searches and json.loads are computed on tokens.      *)
(***************************************************************************)
EXTENDS Integers, Sequences, FiniteSets, TLC

VARIABLES
    openai_api_key,            \* st.session_state.openai_api_key: entered or not
    agent_chain,               \* st.session_state.agent_chain is not None
    memory,                    \* the chain's ConversationBufferMemory
    messages,                  \* st.session_state.messages
    collected_data,            \* st.session_state.collected_data
    pdf_processed,             \* st.session_state.pdf_processed
    linkedin_processed,        \* st.session_state.linkedin_processed
    pending_pdf_context,       \* st.session_state["pending_pdf_context"]
    pending_linkedin_context,  \* st.session_state["pending_linkedin_context"]
    uploaded_file,             \* the file_uploader widget's value
    linkedin_url,              \* the LinkedIn text_input widget's value
    submit_linkedin,           \* the button's value in the current script run
    prompt,                    \* the chat_input's value in the current script run
    pc,                        \* the script is running, or how its last run ended
    calls,                     \* log: every predict() call, in order
    notes,                     \* log: every context note queued, in order
    oob,                       \* log: the out-of-band writes to the Record
    crashed,                   \* log: a script run ended in an uncaught exception
    response_text,             \* parse_agent_response under test: its argument
    made_of,                   \* ... what the argument was composed of
    parsed                     \* ... its results, in order of the calls

vars == << openai_api_key, agent_chain, memory, messages, collected_data,
           pdf_processed, linkedin_processed, pending_pdf_context,
           pending_linkedin_context, uploaded_file, linkedin_url,
           submit_linkedin, prompt, pc, calls, notes, oob, crashed,
           response_text, made_of, parsed >>

session_vars == << openai_api_key, agent_chain, memory, messages, collected_data,
                   pdf_processed, linkedin_processed, pending_pdf_context,
                   pending_linkedin_context, uploaded_file, linkedin_url,
                   submit_linkedin, prompt, pc, calls, notes, oob, crashed >>

parse_vars == << response_text, made_of, parsed >>

-----------------------------------------------------------------------------
(* Tokens                                                                  *)

ConvoOpen  == "<conversation_response>"
ConvoClose == "</conversation_response>"
DataOpen   == "<updated_data>"
DataClose  == "</updated_data>"
\* ''' stands for the three backquotes of a markdown code fence.
FenceJson  == "'''json"
Fence      == "'''"

\* The characters str.strip() removes: runs of blanks and of newlines.
Whitespace == {" ", "\n"}

\* The contents of the quoted strings that occur in the texts of the model.
StringContents ==
    { "", "basic_information", "visa_and_role", "eb1a_criteria",
      "supporting_documents", "first_name", "last_name", "email", "phone",
      "visa_interest", "industry", "job_title",
      "awards_description", "association_membership_description",
      "published_material_description", "judging_work_description",
      "original_contributions_description", "scholarly_articles_description",
      "artistic_showcases_description", "leading_role_description",
      "high_salary_description", "commercial_success_description",
      "linkedin_url", "resume_file",
      "EB1-A", "Ada", "cv.pdf", "old.pdf", "in/ada", "in/old", "N/A" }

Quote(s) == "\"" \o s \o "\""

StringTokens == { Quote(s) : s \in StringContents }

StringOf == [tok \in StringTokens |-> CHOOSE s \in StringContents : Quote(s) = tok]

IsStringToken(tok) == tok \in StringTokens

Unquote(tok) == StringOf[tok]

-----------------------------------------------------------------------------
(* Python values: None, bool, int, float, str, list, dict                  *)

None        == [t |-> "None"]
PyBool(b)   == [t |-> "bool", b |-> b]
PyInt(n)    == [t |-> "int", n |-> n]
PyFloat(x)  == [t |-> "float", x |-> x]
PyStr(s)    == [t |-> "str", s |-> s]
PyList(seq) == [t |-> "list", items |-> seq]
PyDict(f)   == [t |-> "dict", map |-> f]

\* Mutant of Truthy: every value passes the test.
Truthy_Always(v) == TRUE

\* bool(v): what "if updated_data:" tests.
Truthy(v) ==
    CASE v.t = "None"  -> FALSE
      [] v.t = "bool"  -> v.b
      [] v.t = "int"   -> v.n # 0
      [] v.t = "float" -> TRUE      \* nan and inf are truthy
      [] v.t = "str"   -> v.s # ""
      [] v.t = "list"  -> v.items # << >>
      [] v.t = "dict"  -> DOMAIN v.map # {}

-----------------------------------------------------------------------------
(* str methods                                                             *)

RECURSIVE LStrip(_)
LStrip(s) ==
    IF s # << >> /\ Head(s) \in Whitespace THEN LStrip(Tail(s)) ELSE s

RECURSIVE RStrip(_)
RStrip(s) ==
    IF s # << >> /\ s[Len(s)] \in Whitespace
    THEN RStrip(SubSeq(s, 1, Len(s) - 1))
    ELSE s

\* Mutant of Strip: only the left end is stripped.
Strip_LeftOnly(s) == LStrip(s)

Strip(s) == RStrip(LStrip(s))

StartsWith(s, tok) == s # << >> /\ Head(s) = tok

EndsWith(s, tok) == s # << >> /\ s[Len(s)] = tok

-----------------------------------------------------------------------------
(* re.search of an opening tag, a lazy DOTALL group and a closing tag      *)

\* Mutant of Search: a greedy group, which ends at the last closing tag.
Search_Greedy(text, open, close) ==
    LET starts == { i \in 1..Len(text) :
                        /\ text[i] = open
                        /\ \E j \in (i + 1)..Len(text) : text[j] = close }
    IN  IF starts = {}
        THEN [found |-> FALSE, group |-> << >>]
        ELSE LET i == CHOOSE x \in starts : \A y \in starts : x <= y
                 j == CHOOSE x \in (i + 1)..Len(text) :
                          /\ text[x] = close
                          /\ \A y \in (x + 1)..Len(text) : text[y] # close
             IN  [found |-> TRUE, group |-> SubSeq(text, i + 1, j - 1)]

\* The leftmost match starts at the first opening tag that a closing tag
\* follows; the lazy group then ends at the first closing tag after it.
Search(text, open, close) ==
    LET starts == { i \in 1..Len(text) :
                        /\ text[i] = open
                        /\ \E j \in (i + 1)..Len(text) : text[j] = close }
    IN  IF starts = {}
        THEN [found |-> FALSE, group |-> << >>]
        ELSE LET i == CHOOSE x \in starts : \A y \in starts : x <= y
                 j == CHOOSE x \in (i + 1)..Len(text) :
                          /\ text[x] = close
                          /\ \A y \in (i + 1)..(x - 1) : text[y] # close
             IN  [found |-> TRUE, group |-> SubSeq(text, i + 1, j - 1)]

-----------------------------------------------------------------------------
(* json.loads                                                              *)

NumberTokens == {"0", "1", "7"}

NumberOf(tok) == CASE tok = "0" -> 0 [] tok = "1" -> 1 [] tok = "7" -> 7

\* Python's decoder also reads these, which are outside the JSON grammar.
FloatConstants == {"NaN", "Infinity"}

EmptyMap == [k \in {} |-> None]

Put(map, key, val) ==
    [k \in DOMAIN map \cup {key} |-> IF k = key THEN val ELSE map[k]]

JsonFail == [ok |-> FALSE, val |-> None, next |-> 0]

JsonOk(val, next) == [ok |-> TRUE, val |-> val, next |-> next]

RECURSIVE SkipWhitespace(_, _)
SkipWhitespace(s, i) ==
    IF i <= Len(s) /\ s[i] \in Whitespace THEN SkipWhitespace(s, i + 1) ELSE i

RECURSIVE ScanOnce(_, _)
RECURSIVE JSONObject(_, _, _)
RECURSIVE JSONArray(_, _, _)

\* One value starting at s[i]; next is the index after it.
ScanOnce(s, i) ==
    IF i > Len(s) THEN JsonFail
    ELSE LET tok == s[i] IN
         CASE IsStringToken(tok) -> JsonOk(PyStr(Unquote(tok)), i + 1)
           [] tok = "{" ->
                LET j == SkipWhitespace(s, i + 1) IN
                IF j <= Len(s) /\ s[j] = "}"
                THEN JsonOk(PyDict(EmptyMap), j + 1)
                ELSE JSONObject(s, j, EmptyMap)
           [] tok = "[" ->
                LET j == SkipWhitespace(s, i + 1) IN
                IF j <= Len(s) /\ s[j] = "]"
                THEN JsonOk(PyList(<< >>), j + 1)
                ELSE JSONArray(s, j, << >>)
           [] tok = "null"  -> JsonOk(None, i + 1)
           [] tok = "true"  -> JsonOk(PyBool(TRUE), i + 1)
           [] tok = "false" -> JsonOk(PyBool(FALSE), i + 1)
           [] tok \in NumberTokens -> JsonOk(PyInt(NumberOf(tok)), i + 1)
           [] tok \in FloatConstants -> JsonOk(PyFloat(tok), i + 1)
           [] OTHER -> JsonFail

\* The members of an object from s[i] on, after "{" when a member must
\* follow; a repeated key keeps its last value.
JSONObject(s, i, map) ==
    IF i > Len(s) \/ ~IsStringToken(s[i]) THEN JsonFail
    ELSE LET key   == Unquote(s[i])
             colon == SkipWhitespace(s, i + 1)
         IN  IF colon > Len(s) \/ s[colon] # ":" THEN JsonFail
             ELSE LET r == ScanOnce(s, SkipWhitespace(s, colon + 1)) IN
                  IF ~r.ok THEN JsonFail
                  ELSE LET map2 == Put(map, key, r.val)
                           e    == SkipWhitespace(s, r.next)
                       IN  IF e > Len(s) THEN JsonFail
                           ELSE IF s[e] = "}" THEN JsonOk(PyDict(map2), e + 1)
                           ELSE IF s[e] = ","
                                THEN JSONObject(s, SkipWhitespace(s, e + 1), map2)
                           ELSE JsonFail

\* The elements of an array from s[i] on, after "[" when an element must
\* follow.
JSONArray(s, i, items) ==
    LET r == ScanOnce(s, i) IN
    IF ~r.ok THEN JsonFail
    ELSE LET items2 == Append(items, r.val)
             e      == SkipWhitespace(s, r.next)
         IN  IF e > Len(s) THEN JsonFail
             ELSE IF s[e] = "]" THEN JsonOk(PyList(items2), e + 1)
             ELSE IF s[e] = ","
                  THEN JSONArray(s, SkipWhitespace(s, e + 1), items2)
             ELSE JsonFail

\* json.loads(s): one value, whitespace around it allowed, nothing else;
\* ok = FALSE stands for JSONDecodeError.
json_loads(s) ==
    LET r == ScanOnce(s, SkipWhitespace(s, 1)) IN
    IF r.ok /\ SkipWhitespace(s, r.next) > Len(s)
    THEN [ok |-> TRUE, val |-> r.val]
    ELSE [ok |-> FALSE, val |-> None]

-----------------------------------------------------------------------------
(* parse_agent_response                                                    *)

\* Lines 38-40: the cleaning of markdown code-block fences.
CleanFences(json_str) ==
    LET s1 == IF StartsWith(json_str, FenceJson) THEN Tail(json_str) ELSE json_str
        s2 == IF EndsWith(s1, Fence) THEN SubSeq(s1, 1, Len(s1) - 1) ELSE s1
    IN  Strip(s2)

\* Mutant of parse_agent_response: the result depends on the calls made
\* before.
parse_agent_response_CountsCalls(text) ==
    [convo_response |-> text, updated_data |-> PyInt(Len(parsed))]

\* Lines 18-49.
parse_agent_response(text) ==
    LET convo_match == Search(text, ConvoOpen, ConvoClose)
        data_match  == Search(text, DataOpen, DataClose)
        convo_response ==
            IF convo_match.found THEN Strip(convo_match.group) ELSE text
        loaded == json_loads(CleanFences(Strip(data_match.group)))
        updated_data_dict ==
            IF data_match.found /\ loaded.ok THEN loaded.val ELSE None
    IN  [convo_response |-> convo_response, updated_data |-> updated_data_dict]

-----------------------------------------------------------------------------
(* The Record: EB1AData().dict()                                           *)

SectionNames ==
    {"basic_information", "visa_and_role", "eb1a_criteria", "supporting_documents"}

FieldNames(section) ==
    CASE section = "basic_information" ->
            {"first_name", "last_name", "email", "phone"}
      [] section = "visa_and_role" ->
            {"visa_interest", "industry", "job_title"}
      [] section = "eb1a_criteria" ->
            { "awards_description", "association_membership_description",
              "published_material_description", "judging_work_description",
              "original_contributions_description",
              "scholarly_articles_description",
              "artistic_showcases_description", "leading_role_description",
              "high_salary_description", "commercial_success_description" }
      [] section = "supporting_documents" ->
            {"linkedin_url", "resume_file"}

FieldDefault(section, field) ==
    IF section = "visa_and_role" /\ field = "visa_interest" THEN "EB1-A" ELSE ""

EB1AData ==
    PyDict([section \in SectionNames |->
                PyDict([field \in FieldNames(section) |->
                            PyStr(FieldDefault(section, field))])])

\* collected_data['supporting_documents'][field] = value succeeds when both
\* subscripts do; otherwise it raises KeyError or TypeError.
CanSetSupportingDocument(data) ==
    /\ data.t = "dict"
    /\ "supporting_documents" \in DOMAIN data.map
    /\ data.map["supporting_documents"].t = "dict"

SetSupportingDocument(data, field, value) ==
    PyDict([data.map EXCEPT !["supporting_documents"] =
                PyDict(Put(@.map, field, PyStr(value)))])

-----------------------------------------------------------------------------
(* extract_text_from_pdf                                                   *)

NoText == << >>     \* the empty str, and None: both are false in "if"

\* A PDF is its name and either the texts of its pages or, when PdfReader or
\* a page raises, no pages at all.
RECURSIVE JoinPages(_)
JoinPages(pages) ==
    IF pages = << >> THEN << >>
    ELSE (IF Head(pages) # << >> THEN Head(pages) \o << "\n" >> ELSE << >>)
         \o JoinPages(Tail(pages))

extract_text_from_pdf(file_obj) ==
    IF ~file_obj.readable THEN NoText
    ELSE LET text == JoinPages(file_obj.pages) IN
         IF text # << >> THEN Strip(text) ELSE NoText

-----------------------------------------------------------------------------
(* Texts of JSON values, for the completions the model is fed              *)

KeyOrder ==
    << "basic_information", "first_name", "last_name", "email", "phone",
       "visa_and_role", "visa_interest", "industry", "job_title",
       "eb1a_criteria", "awards_description",
       "association_membership_description", "published_material_description",
       "judging_work_description", "original_contributions_description",
       "scholarly_articles_description", "artistic_showcases_description",
       "leading_role_description", "high_salary_description",
       "commercial_success_description",
       "supporting_documents", "linkedin_url", "resume_file" >>

NumberText(n) == CHOOSE tok \in NumberTokens : NumberOf(tok) = n

RECURSIVE JsonText(_)
RECURSIVE ItemsText(_)
RECURSIVE MembersText(_, _)

\* The text of a value, as the system prompt's example lays it out.
JsonText(v) ==
    CASE v.t = "None"  -> << "null" >>
      [] v.t = "bool"  -> << IF v.b THEN "true" ELSE "false" >>
      [] v.t = "int"   -> << NumberText(v.n) >>
      [] v.t = "float" -> << v.x >>
      [] v.t = "str"   -> << Quote(v.s) >>
      [] v.t = "list"  -> << "[" >> \o ItemsText(v.items) \o << "]" >>
      [] v.t = "dict"  ->
            << "{" >>
            \o MembersText(v.map, SelectSeq(KeyOrder, LAMBDA k : k \in DOMAIN v.map))
            \o << "}" >>

ItemsText(items) ==
    IF items = << >> THEN << >>
    ELSE JsonText(Head(items))
         \o (IF Tail(items) = << >> THEN << >> ELSE << ",", " " >> \o ItemsText(Tail(items)))

MembersText(map, keys) ==
    IF keys = << >> THEN << >>
    ELSE << Quote(Head(keys)), ":", " " >> \o JsonText(map[Head(keys)])
         \o (IF Tail(keys) = << >> THEN << >>
             ELSE << ",", "\n" >> \o MembersText(map, Tail(keys)))

\* A Record with some fields filled in.
RecordWith(first_name, linkedin, resume) ==
    PyDict([EB1AData.map EXCEPT
        !["basic_information"] = PyDict(Put(@.map, "first_name", PyStr(first_name))),
        !["supporting_documents"] =
            PyDict(Put(Put(@.map, "linkedin_url", PyStr(linkedin)),
                       "resume_file", PyStr(resume)))])

\* An object that omits sections and fields of the Record.
PartialRecord ==
    PyDict(Put(EmptyMap, "basic_information",
               PyDict(Put(EmptyMap, "first_name", PyStr("Ada")))))

TrailingComma == << "{", Quote("first_name"), ":", " ", Quote("Ada"), ",", "}" >>

Unbalanced == << "{", Quote("basic_information"), ":", " ", "{", "}" >>

ConvoRegion(text) == << ConvoOpen >> \o text \o << ConvoClose >>

DataRegion(text) == << DataOpen >> \o text \o << DataClose >>

Question == << "Hi!", " ", "What", " ", "is", " ", "your", " ", "name?" >>

Thanks == << "Thanks!" >>

-----------------------------------------------------------------------------
(* The inputs of a session                                                 *)

MaxCalls == 3       \* predict() calls in a session of the model

NoFile == [name |-> "", readable |-> FALSE, pages |-> << >>]   \* None

\* What the user may upload: a PDF with text, a scan whose only page holds
\* blanks, and a file PdfReader cannot read.
Files ==
    { [name |-> "cv.pdf", readable |-> TRUE,
       pages |-> << << "Ada", " ", "Lovelace" >>, << >>, << "Awards" >> >>],
      [name |-> "scan.pdf", readable |-> TRUE, pages |-> << << " " >> >>],
      [name |-> "bad.pdf", readable |-> FALSE, pages |-> << >>] }

Urls == {"in/ada"}

NoPrompt == << >>   \* st.chat_input returned None

Prompts == { << "Ada" >> }

\* What predict may return.
Completions ==
    { ConvoRegion(<< "\n" >> \o Question \o << "\n" >>) \o << "\n" >>
          \o DataRegion(<< "\n" >> \o JsonText(RecordWith("Ada", "", "")) \o << "\n" >>),
      ConvoRegion(Thanks) \o DataRegion(JsonText(PyDict(EmptyMap))),
      ConvoRegion(Thanks),
      ConvoRegion(Question) \o DataRegion(TrailingComma),
      ConvoRegion(Thanks) \o DataRegion(JsonText(PartialRecord)) }

\* parse_agent_response(raw_response) for each of them, computed once.
ParsedCompletions == [c \in Completions |-> parse_agent_response(c)]

\* What predict may raise.
Errors == {"timeout"}

InitialInput ==
    << "Hello, please start the conversation by introducing yourself and asking the first question based on your instructions." >>

PdfNote(name, extracted_text) ==
    << "(System note: The user has uploaded a PDF named '", name,
       "'. Its extracted text content begins: ", "\n" >>
    \o extracted_text \o << " ... [truncated])" >>

LinkedInNote(url) ==
    << "(System note: User provided LinkedIn URL: ", url,
       ". You cannot access external URLs, but acknowledge receipt and ask the user to highlight relevant info from it if needed.)" >>

UsersMessage == << "\n", "User's message: " >>

NoNote == << >>     \* the key is not in st.session_state

-----------------------------------------------------------------------------
(* The session                                                             *)

Init ==
    /\ openai_api_key = FALSE
    /\ agent_chain = FALSE
    /\ memory = << >>
    /\ messages = << >>
    /\ collected_data = EB1AData
    /\ pdf_processed = FALSE
    /\ linkedin_processed = FALSE
    /\ pending_pdf_context = NoNote
    /\ pending_linkedin_context = NoNote
    /\ uploaded_file = NoFile
    /\ linkedin_url = ""
    /\ submit_linkedin = FALSE
    /\ prompt = NoPrompt
    /\ pc = "run"
    /\ calls = << >>
    /\ notes = << >>
    /\ oob = [resume_file |-> "", linkedin_url |-> ""]
    /\ crashed = FALSE
    /\ response_text = << >>
    /\ made_of = << >>
    /\ parsed = << >>

\* The script is not running: it ran to its end ("done"), or st.stop() or an
\* uncaught exception ended it before the chat input was drawn ("stopped").
Idle == pc \in {"done", "stopped"}

\* A run that would call predict is started only while calls remain.
CallsRemain == Len(calls) < MaxCalls

\* The widget values of one run that a later run does not see: the button
\* and the chat input hold a value for the run they start, and the URL field
\* is read in the run of the click alone (line 139).
run_inputs == << submit_linkedin, linkedin_url, prompt >>

\* The run ends.
EndRun(at) ==
    /\ pc' = at
    /\ submit_linkedin' = FALSE
    /\ linkedin_url' = ""
    /\ prompt' = NoPrompt

\* st.rerun(): the script starts over, without a click or a chat input.
Rerun == EndRun("run")

\* The run goes on to the blocks of the script that follow.
GoOn ==
    /\ pc' = "run"
    /\ UNCHANGED run_inputs

\* The conditions of the blocks of the script (lines 105-121, 124, 139, 150).
\* A run executes, in the order of the script, the blocks whose condition
\* holds; a block that ran has made its own condition false, so the block to
\* run next is the first one whose condition holds.
ChainReady == openai_api_key /\ agent_chain

\* Mutant of PdfDue: the flag is not tested.
PdfDue_FlagIgnored == uploaded_file # NoFile

PdfDue == uploaded_file # NoFile /\ ~pdf_processed

LinkedInDue == submit_linkedin /\ linkedin_url # "" /\ ~linkedin_processed

\* Mutant of InitiationDue: the initiation block is never entered.
InitiationDue_Never == FALSE

InitiationDue == agent_chain /\ messages = << >>

(* The user's events; each starts a script run. *)

\* Lines 71-81: the user types the API key, the first time or again after a
\* run that stopped; as any interaction does, this runs the script.
EnterApiKey ==
    /\ pc = "stopped"
    /\ messages = << >> => CallsRemain
    /\ openai_api_key' = TRUE
    /\ pc' = "run"
    /\ UNCHANGED << agent_chain, memory, messages, collected_data, pdf_processed,
                    linkedin_processed, pending_pdf_context,
                    pending_linkedin_context, uploaded_file, linkedin_url,
                    submit_linkedin, prompt, calls, notes, oob, crashed >>
    /\ UNCHANGED parse_vars

\* Line 87: the user uploads a file; the uploader is drawn once a key is held.
UploadFile ==
    /\ Idle
    /\ messages = << >> => CallsRemain
    /\ openai_api_key
    /\ \E f \in Files : uploaded_file' = f
    /\ pc' = "run"
    /\ UNCHANGED << openai_api_key, agent_chain, memory, messages, collected_data,
                    pdf_processed, linkedin_processed, pending_pdf_context,
                    pending_linkedin_context, linkedin_url, submit_linkedin,
                    prompt, calls, notes, oob, crashed >>
    /\ UNCHANGED parse_vars

\* Lines 90-91: the user fills the URL field and clicks the button.
SubmitLinkedIn ==
    /\ Idle
    /\ messages = << >> => CallsRemain
    /\ openai_api_key
    /\ \E url \in Urls : linkedin_url' = url
    /\ submit_linkedin' = TRUE
    /\ pc' = "run"
    /\ UNCHANGED << openai_api_key, agent_chain, memory, messages, collected_data,
                    pdf_processed, linkedin_processed, pending_pdf_context,
                    pending_linkedin_context, uploaded_file, prompt, calls,
                    notes, oob, crashed >>
    /\ UNCHANGED parse_vars

\* Line 173: the user sends a chat message; the chat input is drawn by a run
\* that reaches the end of the script.
SendPrompt ==
    /\ pc = "done"
    /\ CallsRemain
    /\ \E p \in Prompts : prompt' = p
    /\ pc' = "run"
    /\ UNCHANGED << openai_api_key, agent_chain, memory, messages, collected_data,
                    pdf_processed, linkedin_processed, pending_pdf_context,
                    pending_linkedin_context, uploaded_file, linkedin_url,
                    submit_linkedin, calls, notes, oob, crashed >>
    /\ UNCHANGED parse_vars

(* The steps of a script run, in the order of the script. *)

\* Lines 105-121: no key stops the run; the chain is built once, and a
\* failure to build it stops the run.
InitializeAgentChain ==
    /\ pc = "run"
    /\ ~ChainReady
    /\ IF ~openai_api_key
       THEN EndRun("stopped") /\ UNCHANGED << agent_chain, memory >>
       ELSE \E built \in BOOLEAN :
               IF built
               THEN /\ agent_chain' = TRUE
                    /\ memory' = << >>
                    /\ GoOn
               ELSE EndRun("stopped") /\ UNCHANGED << agent_chain, memory >>
    /\ UNCHANGED << openai_api_key, messages, collected_data, pdf_processed,
                    linkedin_processed, pending_pdf_context,
                    pending_linkedin_context, uploaded_file, calls, notes,
                    oob, crashed >>
    /\ UNCHANGED parse_vars

\* Lines 124-136.
HandlePdfUpload ==
    /\ pc = "run"
    /\ ChainReady
    /\ PdfDue
    /\ LET extracted_text == extract_text_from_pdf(uploaded_file) IN
       IF extracted_text # NoText
       THEN /\ pending_pdf_context' = PdfNote(uploaded_file.name, extracted_text)
            /\ pdf_processed' = TRUE
            /\ notes' = Append(notes, [channel |-> "pdf",
                                       text |-> pending_pdf_context',
                                       at |-> Len(calls)])
            /\ IF CanSetSupportingDocument(collected_data)
               THEN /\ collected_data' =
                           SetSupportingDocument(collected_data, "resume_file",
                                                 uploaded_file.name)
                    /\ oob' = [oob EXCEPT !.resume_file = uploaded_file.name]
                    /\ Rerun
                    /\ UNCHANGED crashed
               ELSE /\ crashed' = TRUE
                    /\ EndRun("stopped")
                    /\ UNCHANGED << collected_data, oob >>
       ELSE /\ pdf_processed' = TRUE
            /\ GoOn
            /\ UNCHANGED << pending_pdf_context, notes, collected_data, oob,
                            crashed >>
    /\ UNCHANGED << openai_api_key, agent_chain, memory, messages,
                    linkedin_processed, pending_linkedin_context, uploaded_file,
                    calls >>
    /\ UNCHANGED parse_vars

\* Lines 139-147.
HandleLinkedInUrl ==
    /\ pc = "run"
    /\ ChainReady
    /\ ~PdfDue
    /\ LinkedInDue
    /\ pending_linkedin_context' = LinkedInNote(linkedin_url)
    /\ linkedin_processed' = TRUE
    /\ notes' = Append(notes, [channel |-> "linkedin",
                               text |-> pending_linkedin_context',
                               at |-> Len(calls)])
    /\ IF CanSetSupportingDocument(collected_data)
       THEN /\ collected_data' =
                   SetSupportingDocument(collected_data, "linkedin_url", linkedin_url)
            /\ oob' = [oob EXCEPT !.linkedin_url = linkedin_url]
            /\ Rerun
            /\ UNCHANGED crashed
       ELSE /\ crashed' = TRUE
            /\ EndRun("stopped")
            /\ UNCHANGED << collected_data, oob >>
    /\ UNCHANGED << openai_api_key, agent_chain, memory, messages, pdf_processed,
                    pending_pdf_context, uploaded_file, calls >>
    /\ UNCHANGED parse_vars

\* ConversationChain.predict: the chain's memory keeps the input and the
\* output of a call that returns, and nothing of a call that raises.
SaveContext(mem, input, output) ==
    mem \o << [type |-> "human", content |-> input],
              [type |-> "ai", content |-> output] >>

\* What st.session_state holds of the History and of the pending notes at
\* the moment predict is called (lines 155 and 191).
SessionAtCall(msgs, pdf_context, linkedin_context) ==
    [messages |-> msgs, pending_pdf_context |-> pdf_context,
     pending_linkedin_context |-> linkedin_context]

\* Mutant of messages_append: the entry is put at the front.
messages_append_AtFront(msgs, message) == << message >> \o msgs

\* Lines 158, 179, 195, 205: st.session_state.messages.append(message).
messages_append(msgs, message) == Append(msgs, message)

\* Mutant of UpdateCollectedData: the assignment without the test.
UpdateCollectedData_Untested(data, updated_data) == updated_data

\* Lines 159-160 and 197-198: the Record after a completion was parsed.
UpdateCollectedData(data, updated_data) ==
    IF Truthy(updated_data) THEN updated_data ELSE data

\* Lines 150-164.
AgentInitiation ==
    /\ pc = "run"
    /\ ChainReady
    /\ ~PdfDue
    /\ ~LinkedInDue
    /\ InitiationDue
    /\ LET at_call == SessionAtCall(messages, pending_pdf_context,
                                    pending_linkedin_context)
       IN
       \/ \E raw_response \in Completions :
            LET r == ParsedCompletions[raw_response] IN
            /\ calls' = Append(calls, [kind |-> "init", input |-> InitialInput,
                                       ok |-> TRUE, raw |-> raw_response,
                                       session |-> at_call])
            /\ memory' = SaveContext(memory, InitialInput, raw_response)
            /\ messages' = messages_append(messages,
                                [role |-> "assistant", content |-> r.convo_response])
            /\ collected_data' = UpdateCollectedData(collected_data, r.updated_data)
            /\ Rerun
       \/ \E e \in Errors :
            /\ calls' = Append(calls, [kind |-> "init", input |-> InitialInput,
                                       ok |-> FALSE, raw |-> << >>,
                                       session |-> at_call])
            /\ EndRun("stopped")
            /\ UNCHANGED << memory, messages, collected_data >>
    /\ UNCHANGED << openai_api_key, agent_chain, pdf_processed, linkedin_processed,
                    pending_pdf_context, pending_linkedin_context, uploaded_file,
                    notes, oob, crashed >>
    /\ UNCHANGED parse_vars

\* Mutant of AgentInput: the PDF note is left out.
AgentInput_WithoutPdfNote(user_prompt, pdf_context, linkedin_context) ==
    IF linkedin_context # NoNote
    THEN linkedin_context \o UsersMessage \o user_prompt
    ELSE user_prompt

\* Lines 182-186: the input of the agent, the pending notes put before the
\* prompt.
AgentInput(user_prompt, pdf_context, linkedin_context) ==
    LET with_pdf == IF pdf_context # NoNote
                    THEN pdf_context \o UsersMessage \o user_prompt
                    ELSE user_prompt
    IN  IF linkedin_context # NoNote
        THEN linkedin_context \o UsersMessage \o with_pdf
        ELSE with_pdf

\* Lines 173-205.
HandleUserInput ==
    /\ pc = "run"
    /\ ChainReady
    /\ ~PdfDue
    /\ ~LinkedInDue
    /\ ~InitiationDue
    /\ IF prompt # NoPrompt
       THEN LET agent_input == AgentInput(prompt, pending_pdf_context,
                                          pending_linkedin_context)
                user_message == [role |-> "user", content |-> prompt]
                \* lines 179-186 have run when line 191 calls predict
                at_call == SessionAtCall(messages_append(messages, user_message),
                                         NoNote, NoNote)
            IN  /\ pending_pdf_context' = NoNote
                /\ pending_linkedin_context' = NoNote
                /\ \/ \E raw_response \in Completions :
                        LET r == ParsedCompletions[raw_response] IN
                        /\ calls' = Append(calls, [kind |-> "user", input |-> agent_input,
                                                   ok |-> TRUE, raw |-> raw_response,
                                                   session |-> at_call])
                        /\ memory' = SaveContext(memory, agent_input, raw_response)
                        /\ messages' = messages_append(
                               messages_append(messages, user_message),
                               [role |-> "assistant", content |-> r.convo_response])
                        /\ collected_data' =
                               UpdateCollectedData(collected_data, r.updated_data)
                        /\ IF Truthy(r.updated_data) THEN Rerun ELSE EndRun("done")
                   \/ \E e \in Errors :
                        /\ calls' = Append(calls, [kind |-> "user", input |-> agent_input,
                                                   ok |-> FALSE, raw |-> << >>,
                                                   session |-> at_call])
                        /\ messages' = messages_append(
                               messages_append(messages, user_message),
                               [role |-> "system", content |-> << "Error: ", e >>])
                        /\ EndRun("done")
                        /\ UNCHANGED << memory, collected_data >>
       ELSE /\ EndRun("done")
            /\ UNCHANGED << pending_pdf_context, pending_linkedin_context, calls,
                            memory, messages, collected_data >>
    /\ UNCHANGED << openai_api_key, agent_chain, pdf_processed, linkedin_processed,
                    uploaded_file, notes, oob, crashed >>
    /\ UNCHANGED parse_vars

Next ==
    \/ EnterApiKey
    \/ UploadFile
    \/ SubmitLinkedIn
    \/ SendPrompt
    \/ InitializeAgentChain
    \/ HandlePdfUpload
    \/ HandleLinkedInUrl
    \/ AgentInitiation
    \/ HandleUserInput

Spec == Init /\ [][Next]_vars

-----------------------------------------------------------------------------
(* parse_agent_response on its own: the completions it is applied to       *)

MaxParses == 2      \* calls of parse_agent_response on one completion

\* The inner text of a conversational region: blanks and newlines around a
\* core that neither starts nor ends with one.
ConvoCores == { << >>, Thanks, Question }

Paddings == { << >>, << "\n" >>, << " ", "\n" >> }

\* JSON values and, by JsonText, the valid JSON texts of the model.
JsonValues ==
    { EB1AData, RecordWith("Ada", "in/ada", "cv.pdf"), PartialRecord,
      PyDict(EmptyMap), PyList(<< >>),
      PyList(<< PyInt(1), None, PyBool(TRUE), PyDict(EmptyMap) >>),
      PyDict(Put(EmptyMap, "email", PyList(<< PyStr("N/A"), PyInt(7) >>))),
      PyStr("N/A"), PyStr(""), PyInt(0), PyInt(7), PyBool(FALSE), PyBool(TRUE),
      None }

\* Texts that are not JSON.
InvalidJsonTexts ==
    { TrailingComma, Unbalanced, << >>, << "Ada" >>,
      << "{", "}", "{", "}" >>,
      << "[", "1", ",", "]" >>,
      << "[", "1", " ", "7", "]" >>,
      << "{", Quote("email"), " ", Quote("N/A"), "}" >>,
      << "{", "1", ":", "7", "}" >>,
      << "{", Quote("email"), ":", "}" >>,
      << "}" >>,
      << "NaN" >>, << "Infinity" >>,
      << "{", Quote("phone"), ":", " ", "NaN", "}" >> }

\* How the text of a value is wrapped inside the structured-data region.
Wrappings == {"plain", "fenced", "fence_json_only", "fence_end_only", "fence_bare"}

Wrap(wrapping, text) ==
    CASE wrapping = "plain"           -> text
      [] wrapping = "fenced"          -> << FenceJson, "\n" >> \o text \o << "\n", Fence >>
      [] wrapping = "fence_json_only" -> << FenceJson, "\n" >> \o text
      [] wrapping = "fence_end_only"  -> text \o << "\n", Fence >>
      [] wrapping = "fence_bare"      -> << Fence, "\n" >> \o text \o << "\n", Fence >>

NoConvo == [present |-> FALSE, lead |-> << >>, core |-> << >>, trail |-> << >>,
            again |-> FALSE]

\* The conversational region of a completion; the model may write a second
\* one right after it.
ConvoParts ==
    {NoConvo} \cup
    { [present |-> TRUE, lead |-> lead, core |-> core, trail |-> trail,
       again |-> again] :
          lead \in Paddings, core \in ConvoCores, trail \in {<< >>, << "\n" >>},
          again \in BOOLEAN }

NoData == [kind |-> "absent", wrapping |-> "plain", pad |-> << >>,
           value |-> None, text |-> << >>]

DataParts ==
    {NoData} \cup
    { [kind |-> "valid", wrapping |-> w, pad |-> pad, value |-> v, text |-> JsonText(v)] :
          w \in Wrappings, pad \in {<< >>, << "\n" >>}, v \in JsonValues } \cup
    { [kind |-> k, wrapping |-> "plain", pad |-> pad, value |-> None, text |-> t] :
          k \in {"invalid", "unclosed"}, pad \in {<< >>, << "\n" >>},
          t \in InvalidJsonTexts }

\* What a completion of the model is made of.
ResponseParts ==
    { [before |-> before, convo |-> c, data |-> d, data_first |-> df] :
          before \in {<< >>, << "Sure.", "\n" >>}, c \in ConvoParts,
          d \in DataParts, df \in BOOLEAN }

ConvoText(c) ==
    IF c.present
    THEN ConvoRegion(c.lead \o c.core \o c.trail)
         \o (IF c.again THEN << "\n" >> \o ConvoRegion(Thanks) ELSE << >>)
    ELSE << >>

DataText(d) ==
    CASE d.kind = "absent"   -> << >>
      [] d.kind = "unclosed" -> << DataOpen >> \o d.pad \o d.text
      [] OTHER -> DataRegion(d.pad \o Wrap(d.wrapping, d.text) \o d.pad)

ResponseText(parts) ==
    parts.before
    \o (IF parts.data_first
        THEN DataText(parts.data) \o << "\n" >> \o ConvoText(parts.convo)
        ELSE ConvoText(parts.convo) \o << "\n" >> \o DataText(parts.data))

ParseInit ==
    /\ openai_api_key = FALSE
    /\ agent_chain = FALSE
    /\ memory = << >>
    /\ messages = << >>
    /\ collected_data = EB1AData
    /\ pdf_processed = FALSE
    /\ linkedin_processed = FALSE
    /\ pending_pdf_context = NoNote
    /\ pending_linkedin_context = NoNote
    /\ uploaded_file = NoFile
    /\ linkedin_url = ""
    /\ submit_linkedin = FALSE
    /\ prompt = NoPrompt
    /\ pc = "run"
    /\ calls = << >>
    /\ notes = << >>
    /\ oob = [resume_file |-> "", linkedin_url |-> ""]
    /\ crashed = FALSE
    /\ made_of \in ResponseParts
    /\ response_text = ResponseText(made_of)
    /\ parsed = << >>

\* One call of parse_agent_response(response_text).
ParseResponse ==
    /\ Len(parsed) < MaxParses
    /\ parsed' = Append(parsed, parse_agent_response(response_text))
    /\ UNCHANGED << response_text, made_of >>
    /\ UNCHANGED session_vars

ParseNext == ParseResponse

ParseSpec == ParseInit /\ [][ParseNext]_vars

-----------------------------------------------------------------------------
(* Properties                                                              *)

\* This step made a predict() call.
Called == Len(calls') = Len(calls) + 1

ThisCall == calls'[Len(calls')]

\* The completion has no structured-data region, or the JSON decoder
\* rejects what the region holds.
ExtractionFails(raw) ==
    LET m == Search(raw, DataOpen, DataClose) IN
    ~m.found \/ ~json_loads(CleanFences(Strip(m.group))).ok

\* The value the JSON decoder reads in the structured-data region.
ExtractedValue(raw) ==
    json_loads(CleanFences(Strip(Search(raw, DataOpen, DataClose).group))).val

\* messages' is messages with the display message of this step's completion
\* as its new last entry.
DisplayMessageAppended ==
    /\ Len(messages') > Len(messages)
    /\ SubSeq(messages', 1, Len(messages)) = messages
    /\ messages'[Len(messages')] =
           [role |-> "assistant",
            content |-> parse_agent_response(ThisCall.raw).convo_response]

\* C1: a turn (initiation or user turn) whose completion has no
\* structured-data region, or one that fails to parse, leaves the Record as
\* it was and still appends the turn's display message to the History.
C1_FailedExtractionKeepsRecord ==
    [][ (Called /\ ThisCall.ok /\ ExtractionFails(ThisCall.raw))
            => (collected_data' = collected_data /\ DisplayMessageAppended) ]_vars

\* C1 witness: after a parsed Record was stored, one user turn came without
\* a structured-data region and one with a trailing comma in it; the Record
\* is still the stored one.
C1_Witness ==
    /\ Len(calls) = 3
    /\ calls[1].ok /\ ~ExtractionFails(calls[1].raw)
    /\ calls[2].ok /\ ~Search(calls[2].raw, DataOpen, DataClose).found
    /\ calls[3].ok /\ Search(calls[3].raw, DataOpen, DataClose).found
    /\ ExtractionFails(calls[3].raw)
    /\ collected_data = RecordWith("Ada", "", "")
    /\ Len(messages) = 5
    /\ messages[5].role = "assistant"

\* C2: every turn whose completion holds a structured-data region that
\* parses as JSON makes the Record equal to the parsed value, whatever the
\* value.
C2_RecordIsParsedValue ==
    [][ (Called /\ ThisCall.ok /\ ~ExtractionFails(ThisCall.raw))
            => collected_data' = ExtractedValue(ThisCall.raw) ]_vars

\* The value of a supporting-documents field of the Record; "" when the
\* Record has no such field or an empty one.
SupportingDocument(data, field) ==
    IF /\ CanSetSupportingDocument(data)
       /\ field \in DOMAIN data.map["supporting_documents"].map
       /\ data.map["supporting_documents"].map[field].t = "str"
    THEN data.map["supporting_documents"].map[field].s
    ELSE ""

\* C3: once resume_file or linkedin_url was written out of band, no step
\* takes the value out of the Record or blanks it.
C3_OutOfBandValueKept ==
    [][ \A field \in {"resume_file", "linkedin_url"} :
            (oob[field] # "" /\ SupportingDocument(collected_data, field) = oob[field])
                => SupportingDocument(collected_data', field) # "" ]_vars

\* C4: the Record always has the sections and the fields of the blank
\* Record, and strings in the fields.
C4_RecordShapeFixed ==
    /\ collected_data.t = "dict"
    /\ DOMAIN collected_data.map = SectionNames
    /\ \A section \in SectionNames :
          /\ collected_data.map[section].t = "dict"
          /\ DOMAIN collected_data.map[section].map = FieldNames(section)
          /\ \A field \in FieldNames(section) :
                collected_data.map[section].map[field].t = "str"

\* C5: a user turn whose predict() call raises leaves the Record and the
\* History as they were.
C5_FailedTurnChangesNothing ==
    [][ (Called /\ ThisCall.kind = "user" /\ ~ThisCall.ok)
            => (collected_data' = collected_data /\ messages' = messages) ]_vars

\* The places of text sub in text s.
Places(sub, s) ==
    { i \in 1..(Len(s) - Len(sub) + 1) : SubSeq(s, i, i + Len(sub) - 1) = sub }

Contains(s, sub) == Places(sub, s) # {}

FirstPlace(sub, s) == CHOOSE i \in Places(sub, s) : \A j \in Places(sub, s) : i <= j

\* The user turns made after note n was queued.
UserTurnsAfter(n) ==
    { u \in 1..Len(calls) : u > notes[n].at /\ calls[u].kind = "user" }

\* Note n was pending when the user turn u was sent.
PendingAt(n, u) ==
    /\ u \in UserTurnsAfter(n)
    /\ \A v \in UserTurnsAfter(n) : u <= v

\* C6: two notes pending at a user turn are both in the input of the turn,
\* the one produced first before the other.
C6_NotesInOrderProduced ==
    \A u \in 1..Len(calls) : \A n1, n2 \in 1..Len(notes) :
        (n1 < n2 /\ PendingAt(n1, u) /\ PendingAt(n2, u))
            => /\ Contains(calls[u].input, notes[n1].text)
               /\ Contains(calls[u].input, notes[n2].text)
               /\ FirstPlace(notes[n1].text, calls[u].input)
                      < FirstPlace(notes[n2].text, calls[u].input)

PendingContext(channel) ==
    IF channel = "pdf" THEN pending_pdf_context ELSE pending_linkedin_context

\* C7: a queued note is in the input of the first user turn sent after it
\* was queued, whether that turn's call returned or raised, in the input of
\* no other call, and is not pending after that turn; until that turn it is
\* pending.
C7_NoteConsumedOnce ==
    \A n \in 1..Len(notes) :
        IF UserTurnsAfter(n) = {}
        THEN /\ PendingContext(notes[n].channel) = notes[n].text
             /\ \A u \in 1..Len(calls) : ~Contains(calls[u].input, notes[n].text)
        ELSE /\ PendingContext(notes[n].channel) = NoNote
             /\ \A u \in 1..Len(calls) :
                    Contains(calls[u].input, notes[n].text) <=> PendingAt(n, u)

\* C7 witness: a PDF note queued before the initiation went into the first
\* user turn, whose call raised, and a further user turn followed.
C7_Witness ==
    /\ Len(notes) >= 1
    /\ notes[1].channel = "pdf"
    /\ notes[1].at = 0
    /\ Len(calls) = 3
    /\ calls[1].kind = "init" /\ calls[1].ok
    /\ calls[2].kind = "user" /\ ~calls[2].ok
    /\ Contains(calls[2].input, notes[1].text)
    /\ calls[3].kind = "user"
    /\ pc = "done"

\* C8: a completion with a conversational region and a structured-data
\* region holding the text of a JSON value gives the core of the
\* conversational region, without the blanks around it, and the value.
C8_BothRegionsExtracted ==
    \A i \in 1..Len(parsed) :
        (made_of.convo.present /\ made_of.data.kind = "valid"
                               /\ made_of.data.wrapping = "plain")
            => /\ parsed[i].convo_response = made_of.convo.core
               /\ parsed[i].updated_data = made_of.data.value

\* C8 witness: a padded question and a padded full Record were extracted.
C8_Witness ==
    /\ Len(parsed) >= 1
    /\ made_of.convo.present
    /\ made_of.convo.lead = << " ", "\n" >>
    /\ made_of.convo.trail = << "\n" >>
    /\ made_of.convo.core = Question
    /\ made_of.data.kind = "valid"
    /\ made_of.data.wrapping = "plain"
    /\ made_of.data.pad = << "\n" >>
    /\ made_of.data.value = RecordWith("Ada", "in/ada", "cv.pdf")
    /\ parsed[1].updated_data = RecordWith("Ada", "in/ada", "cv.pdf")

\* C9: a completion without a structured-data region gives no Record and a
\* display text that is not empty.
C9_NoRegionGivesNonEmptyText ==
    \A i \in 1..Len(parsed) :
        made_of.data.kind \in {"absent", "unclosed"}
            => /\ parsed[i].updated_data = None
               /\ parsed[i].convo_response # << >>

\* C10: a completion whose structured-data region holds a text that is not
\* JSON gives no Record.
C10_InvalidJsonGivesNone ==
    \A i \in 1..Len(parsed) :
        made_of.data.kind = "invalid" => parsed[i].updated_data = None

\* C11: every step leaves the History as it was or extends it at the end;
\* the entries it held stay, in their places and unchanged.
C11_HistoryOnlyAppended ==
    [][ /\ Len(messages') >= Len(messages)
        /\ SubSeq(messages', 1, Len(messages)) = messages ]_vars

\* C11 witness: the History grew by the initiation, by a user turn whose
\* call raised and by a user turn that came with a pending note; a PDF
\* upload and a URL submission were handled on the way.
C11_Witness ==
    /\ Len(messages) = 5
    /\ messages[1].role = "assistant"
    /\ messages[2].role = "user"
    /\ messages[3].role = "system"
    /\ messages[4].role = "user"
    /\ messages[5].role = "assistant"
    /\ pdf_processed
    /\ linkedin_processed
    /\ Len(notes) >= 1
    /\ notes[1].at = 2

\* C12: every entry of the History has role user or role assistant, also
\* after a user turn whose predict() call raised.
C12_RolesUserOrAssistant ==
    \A i \in 1..Len(messages) : messages[i].role \in {"user", "assistant"}

\* Lines 142-148 of visa_agent.py: the messages that the chain's memory puts
\* in the place of "history" in the prompt of a call, a human message read
\* by the model as role user and an AI message as role assistant.
history(mem) ==
    [i \in 1..Len(mem) |->
        [role |-> IF mem[i].type = "human" THEN "user" ELSE "assistant",
         content |-> mem[i].content]]

\* C13: at every predict() call the history the chain supplies is the
\* History the session stores: as many turns, in the same order, with the
\* same roles and the same text.
C13_SuppliedHistoryIsStoredHistory ==
    [][ Called => history(memory) = messages ]_vars

\* A run that reaches the chat input with a message of the user in it.
UserTurn ==
    /\ pc = "run" /\ ChainReady /\ ~PdfDue /\ ~LinkedInDue /\ ~InitiationDue
    /\ prompt # NoPrompt

\* This step handled a PDF upload or a URL submission.
SideChannelHandled ==
    pdf_processed' # pdf_processed \/ linkedin_processed' # linkedin_processed

\* C14: a user turn makes one predict() call, the handling of a PDF upload
\* or of a URL submission makes none, and the History and the pending notes
\* are, when the call is made, what they were before the turn: the turn
\* writes them only once the call has returned or raised.
C14_OneCallUpdateAfterIt ==
    [][ /\ UserTurn => (Called /\ ThisCall.kind = "user")
        /\ Len(calls') <= Len(calls) + 1
        /\ SideChannelHandled => calls' = calls
        /\ Called => ThisCall.session =
                         SessionAtCall(messages, pending_pdf_context,
                                       pending_linkedin_context) ]_vars

\* This step is a user turn that met an error: predict raised, or the
\* completion has no structured-data region or one the decoder rejects.
ErrorTurn ==
    /\ UserTurn
    /\ Called
    /\ ~ThisCall.ok \/ ExtractionFails(ThisCall.raw)

\* C15: a user turn that met an error raises nothing out of the handler and
\* ends its run at the chat input, with the chain in place; a message sent at the chat input starts a user turn,
\* and every user turn, the one after an error too, makes a predict() call
\* and, when the call returns, appends the display message to the History.
C15_ErrorTurnKeepsConversation ==
    [][ /\ ErrorTurn => (pc' = "done" /\ ChainReady' /\ crashed' = crashed)
        /\ (pc = "done" /\ CallsRemain) => ENABLED SendPrompt
        /\ (pc = "done" /\ prompt' # NoPrompt) => UserTurn'
        /\ UserTurn => /\ Called
                       /\ ThisCall.kind = "user"
                       /\ ThisCall.ok => DisplayMessageAppended ]_vars

\* C15 witness: the first user turn's call raised, and the user turn sent
\* after it made a call that returned and whose display message is the last
\* entry of the History.
C15_Witness ==
    /\ Len(calls) = 3
    /\ calls[2].kind = "user" /\ ~calls[2].ok
    /\ calls[3].kind = "user" /\ calls[3].ok
    /\ Len(messages) = 5
    /\ messages[3].role = "system"
    /\ messages[4].role = "user"
    /\ messages[5] = [role |-> "assistant",
                      content |-> parse_agent_response(calls[3].raw).convo_response]

C17_DisplayTextFromConvoRegion ==
    \A i \in 1..Len(parsed) :
        parsed[i].convo_response =
            IF made_of.convo.present THEN made_of.convo.core ELSE response_text

\* C17 witness: a completion with two conversational regions, the first a
\* padded question, and a structured-data region that does not hold JSON
\* gave the question.
C17_Witness ==
    /\ Len(parsed) >= 1
    /\ made_of.convo.present
    /\ made_of.convo.again
    /\ made_of.convo.lead = << " ", "\n" >>
    /\ made_of.convo.core = Question
    /\ made_of.data.kind = "invalid"
    /\ made_of.data.text = TrailingComma
    /\ made_of.data_first
    /\ parsed[1].convo_response = Question

\* C18: a structured-data region that holds the text of a JSON value after
\* an opening code-fence marker, with the language tag or bare, and/or
\* before a closing one gives the value, as the text alone does.
C18_FencesAroundJsonIgnored ==
    \A i \in 1..Len(parsed) :
        made_of.data.kind = "valid" => parsed[i].updated_data = made_of.data.value

\* C19: the write of resume_file by the PDF handler and of linkedin_url by
\* the LinkedIn handler into the stored Record raises nothing, whatever
\* value earlier turns stored as the Record.
C19_OutOfBandWriteCompletes ==
    [][ SideChannelHandled => crashed' = crashed ]_vars

\* A run that reaches the initiation block with an empty History.
InitiationTurn ==
    pc = "run" /\ ChainReady /\ ~PdfDue /\ ~LinkedInDue /\ messages = << >>

\* The initiation has succeeded before call u was made.
InitiatedBefore(u) ==
    \E c \in 1..(u - 1) : calls[c].kind = "init" /\ calls[c].ok

\* C20: the first entry of a History that is not empty has role assistant;
\* a message of the user is accepted and a user turn is processed only
\* after an initiation that succeeded; an initiation whose call raises
\* leaves the History empty and stops the run, and a run that finds the
\* History empty makes the initiation call again.
C20_InitiationBeforeUserTurns ==
    [][ /\ messages # << >> => messages[1].role = "assistant"
        /\ prompt # NoPrompt => InitiatedBefore(Len(calls) + 1)
        /\ \A u \in 1..Len(calls) : calls[u].kind = "user" => InitiatedBefore(u)
        /\ (Called /\ ThisCall.kind = "init" /\ ~ThisCall.ok)
               => (messages' = << >> /\ pc' = "stopped")
        /\ InitiationTurn => (Called /\ ThisCall.kind = "init") ]_vars

\* C20 witness: the first initiation call raised, the run after it made the
\* call again, which returned, and a user turn followed.
C20_Witness ==
    /\ Len(calls) = 3
    /\ calls[1].kind = "init" /\ ~calls[1].ok
    /\ calls[2].kind = "init" /\ calls[2].ok
    /\ calls[3].kind = "user"
    /\ Len(messages) >= 3
    /\ messages[1].role = "assistant"
    /\ messages[2].role = "user"

\* The notes queued on a channel.
NotesOf(queued, channel) ==
    { n \in 1..Len(queued) : queued[n].channel = channel }

\* This step handled an upload whose text extraction failed.
FailedExtraction ==
    /\ ~pdf_processed
    /\ pdf_processed'
    /\ extract_text_from_pdf(uploaded_file) = NoText

\* C21: once pdf_processed is set it stays set, and no step queues a PDF
\* note or writes resume_file; likewise for linkedin_processed, the LinkedIn
\* note and linkedin_url; each channel queues one note at most; and the
\* handling of an upload whose extraction failed queues no note and leaves
\* the Record as it was.
C21_SideChannelHandledOnce ==
    [][ /\ pdf_processed
            => /\ pdf_processed'
               /\ NotesOf(notes', "pdf") = NotesOf(notes, "pdf")
               /\ pending_pdf_context' \in {pending_pdf_context, NoNote}
               /\ oob'.resume_file = oob.resume_file
        /\ linkedin_processed
            => /\ linkedin_processed'
               /\ NotesOf(notes', "linkedin") = NotesOf(notes, "linkedin")
               /\ pending_linkedin_context' \in {pending_linkedin_context, NoNote}
               /\ oob'.linkedin_url = oob.linkedin_url
        /\ Cardinality(NotesOf(notes', "pdf")) <= 1
        /\ Cardinality(NotesOf(notes', "linkedin")) <= 1
        /\ FailedExtraction
            => /\ notes' = notes
               /\ pending_pdf_context' = pending_pdf_context
               /\ collected_data' = collected_data ]_vars

\* C21 witness: an upload whose extraction failed set pdf_processed, a PDF
\* with text was uploaded after it and run through the script, and a URL
\* was submitted; no PDF note was queued, resume_file was not written, and
\* the LinkedIn channel queued its one note.
C21_Witness ==
    /\ pc = "done"
    /\ pdf_processed
    /\ uploaded_file.name = "cv.pdf"
    /\ NotesOf(notes, "pdf") = {}
    /\ oob.resume_file = ""
    /\ SupportingDocument(collected_data, "resume_file") = ""
    /\ linkedin_processed
    /\ Cardinality(NotesOf(notes, "linkedin")) = 1
    /\ oob.linkedin_url = "in/ada"
    /\ Len(calls) = 3

====
